---- MODULE Spec2Model ----
(***************************************************************************)
(* Model of the lounge logging package (lounge.go).                        *)
(*                                                                         *)
(* Strings are sequences of atoms.  An atom is either a piece of text that *)
(* contains no '%' (copied verbatim by fmt) or one complete format verb    *)
(* ("%s", "%d", "%%"), so that the concatenation of atoms is scanned by    *)
(* fmt atom by atom.                                                       *)
(***************************************************************************)
EXTENDS Integers, Sequences, FiniteSets, TLC

\* Bounds of the model.
MaxFmtLen == 2
MaxArgs == 1
MaxLines == 1
MaxOpts == 2

\* Input alphabets.
Keys == {"env", "cool"}
Vals == {"test", "%s"}
FmtAtoms == {"boom", "%s", "\n"}
ArgVals == {"world"}
Times == {"2024-01-15T10:30:00Z"}
Unset == "<unset>"
GoPaths == {Unset, "/go", "/opt"}
Writers == {"buf"}
Handles == {"b", "l1", "l2"}
Levels == {"DEBUG", "INFO", "ERROR"}

VARIABLES logs, maps, refs, sinks, called, from, pkeys

vars == <<logs, maps, refs, sinks, called, from, pkeys>>

----------------------------------------------------------------------------
\* Generic helpers.

SeqsUpTo(S, n) == UNION {[1..m -> S] : m \in 0..n}

Orders(S) == {o \in [1..Cardinality(S) -> S] : \A i, j \in DOMAIN o : i # j => o[i] # o[j]}

PairMaps == UNION {[D -> Vals] : D \in SUBSET Keys}

\* strings.Join(elems, sep)
RECURSIVE Join(_, _)
Join(elems, sep) ==
    IF elems = <<>> THEN <<>>
    ELSE IF Len(elems) = 1 THEN elems[1]
    ELSE elems[1] \o sep \o Join(Tail(elems), sep)

\* strings.ReplaceAll(s, old, new), old non-empty
RECURSIVE ReplaceAll(_, _, _)
ReplaceAll(s, old, new) ==
    IF s = <<>> THEN <<>>
    ELSE IF Len(s) >= Len(old) /\ SubSeq(s, 1, Len(old)) = old
         THEN new \o ReplaceAll(SubSeq(s, Len(old) + 1, Len(s)), old, new)
         ELSE <<Head(s)>> \o ReplaceAll(Tail(s), old, new)

\* strconv.Itoa
Itoa(i) == <<ToString(i)>>

----------------------------------------------------------------------------
\* fmt.Fprintf / fmt.Sprintf with string operands.

IsVerb(a) == a \in {"%s", "%d"}

RECURSIVE ExtraList(_, _)
ExtraList(args, argNum) ==
    IF argNum > Len(args) THEN <<>>
    ELSE <<"string=", args[argNum]>>
         \o (IF argNum < Len(args) THEN <<", ">> ELSE <<>>)
         \o ExtraList(args, argNum + 1)

RECURSIVE doPrintf(_, _, _)
doPrintf(format, args, argNum) ==
    IF format = <<>>
    THEN IF argNum <= Len(args)
         THEN <<"%!(EXTRA ">> \o ExtraList(args, argNum) \o <<")">>
         ELSE <<>>
    ELSE LET a == Head(format)
             rest == Tail(format)
         IN CASE a = "%s" ->
                   IF argNum <= Len(args)
                   THEN <<args[argNum]>> \o doPrintf(rest, args, argNum + 1)
                   ELSE <<"%!s(MISSING)">> \o doPrintf(rest, args, argNum)
              [] a = "%d" ->
                   IF argNum <= Len(args)
                   THEN <<"%!d(string=", args[argNum], ")">> \o doPrintf(rest, args, argNum + 1)
                   ELSE <<"%!d(MISSING)">> \o doPrintf(rest, args, argNum)
              [] a = "%%" -> <<"%">> \o doPrintf(rest, args, argNum)
              [] OTHER -> <<a>> \o doPrintf(rest, args, argNum)

Sprintf(format, args) == doPrintf(format, args, 1)

----------------------------------------------------------------------------
\* Caller resolution.

LoungeFile == <<"/go", "/src/", "lounge/lounge.go">>
CallSite == [Function |-> "main.main", File |-> <<"/go", "/src/", "app/main.go">>, Line |-> 12]
ZeroFrame == [Function |-> "", File |-> <<>>, Line |-> 0]
UnknownFrame == [Function |-> "unknown", File |-> <<>>, Line |-> 0]

LevelfLine(level) == CASE level = "DEBUG" -> 94 [] level = "INFO" -> 98 [] OTHER -> 102

\* The goroutine's stack when runtime.Callers runs, innermost frame first.
Stack(level) ==
    << [Function |-> "runtime.Callers", File |-> <<"/usr/go/", "runtime/extern.go">>, Line |-> 331],
       [Function |-> "lounge.getFrame", File |-> LoungeFile, Line |-> 136],
       [Function |-> "lounge.printLevel", File |-> LoungeFile, Line |-> 114],
       [Function |-> "lounge.Levelf", File |-> LoungeFile, Line |-> LevelfLine(level)],
       CallSite,
       [Function |-> "runtime.main", File |-> <<"/usr/go/", "runtime/proc.go">>, Line |-> 250] >>

RECURSIVE getFrameLoop(_, _, _, _, _)
getFrameLoop(frames, frameIndex, more, frame, targetFrameIndex) ==
    IF more /\ frameIndex <= targetFrameIndex
    THEN LET frameCandidate == IF frameIndex < Len(frames) THEN frames[frameIndex + 1] ELSE ZeroFrame
             more2 == frameIndex + 1 < Len(frames)
         IN getFrameLoop(frames, frameIndex + 1, more2,
                         IF frameIndex = targetFrameIndex THEN frameCandidate ELSE frame,
                         targetFrameIndex)
    ELSE frame

\* n is what runtime.Callers returns: the number of program counters it filled.
getFrame(skipFrames, stack, n) ==
    LET targetFrameIndex == skipFrames + 2
        frame == UnknownFrame
    IN IF n > 0
       THEN getFrameLoop(SubSeq(stack, 1, n), 0, TRUE, frame, targetFrameIndex)
       ELSE frame

\* The values runtime.Callers can return for the buffer getFrame(2) hands it.
CallersResults == 0..Len(Stack("INFO"))

----------------------------------------------------------------------------
\* printLevel: the bytes one call hands to the sink.

RenderPairs(m, order) == [i \in DOMAIN order |-> Sprintf(<<"%s", "=", "%s">>, <<order[i], m[order[i]]>>)]

Header(now, level) == <<now, " |", level, "| ">>

printLevelSpaced(d, m, level, fmtStr, args, now, order, gopath, n) ==
    LET pairs == RenderPairs(m, order)
        caller == getFrame(2, Stack(level), n)
        callerWithLine == caller.File \o <<"#">> \o Itoa(caller.Line)
        stripped == IF gopath # Unset
                    THEN ReplaceAll(callerWithLine, <<gopath, "/src/">>, <<>>)
                    ELSE callerWithLine
        sep == IF pairs = <<>> THEN <<>> ELSE <<" ">>
    IN IF d
       THEN Sprintf(Header(now, level) \o stripped \o <<" ">> \o Join(pairs, <<" ">>) \o sep
                    \o fmtStr \o <<"\n">>, args)
       ELSE Sprintf(Header(now, level) \o Join(pairs, <<" ">>) \o sep \o fmtStr \o <<"\n">>, args)

printLevelDebugOnly(d, m, level, fmtStr, args, now, order, gopath, n) ==
    LET pairs == RenderPairs(m, order)
        caller == getFrame(2, Stack(level), n)
        callerWithLine == caller.File \o <<"#">> \o Itoa(caller.Line)
        stripped == IF gopath # Unset
                    THEN ReplaceAll(callerWithLine, <<gopath, "/src/">>, <<>>)
                    ELSE callerWithLine
    IN IF d /\ level = "DEBUG"
       THEN Sprintf(Header(now, level) \o stripped \o <<" ">> \o Join(pairs, <<" ">>)
                    \o fmtStr \o <<"\n">>, args)
       ELSE Sprintf(Header(now, level) \o Join(pairs, <<" ">>) \o fmtStr \o <<"\n">>, args)

printLevelInfoTag(d, m, level, fmtStr, args, now, order, gopath, n) ==
    LET pairs == RenderPairs(m, order)
        caller == getFrame(2, Stack(level), n)
        callerWithLine == caller.File \o <<"#">> \o Itoa(caller.Line)
        stripped == IF gopath # Unset
                    THEN ReplaceAll(callerWithLine, <<gopath, "/src/">>, <<>>)
                    ELSE callerWithLine
    IN IF d
       THEN Sprintf(Header(now, "INFO") \o stripped \o <<" ">> \o Join(pairs, <<" ">>)
                    \o fmtStr \o <<"\n">>, args)
       ELSE Sprintf(Header(now, "INFO") \o Join(pairs, <<" ">>) \o fmtStr \o <<"\n">>, args)

\* d: dl.enableDebug, m: the map dl.pairs refers to, order: the order in which
\* range visits its keys, gopath: what os.LookupEnv("GOPATH") returns.
printLevel(d, m, level, fmtStr, args, now, order, gopath, n) ==
    LET pairs == RenderPairs(m, order)
        caller == getFrame(2, Stack(level), n)
        callerWithLine == caller.File \o <<"#">> \o Itoa(caller.Line)
        stripped == IF gopath # Unset
                    THEN ReplaceAll(callerWithLine, <<gopath, "/src/">>, <<>>)
                    ELSE callerWithLine
    IN IF d
       THEN Sprintf(Header(now, level) \o stripped \o <<" ">> \o Join(pairs, <<" ">>)
                    \o fmtStr \o <<"\n">>, args)
       ELSE Sprintf(Header(now, level) \o Join(pairs, <<" ">>) \o fmtStr \o <<"\n">>, args)

----------------------------------------------------------------------------
\* Construction.

Options == {[kind |-> "WithDebugEnabled", w |-> ""]} \cup {[kind |-> "WithOutput", w |-> w] : w \in Writers}

ApplyOption(l, opt) ==
    IF opt.kind = "WithDebugEnabled"
    THEN [l EXCEPT !.enableDebug = TRUE]
    ELSE [l EXCEPT !.output = opt.w]

RECURSIVE ApplyOptions(_, _)
ApplyOptions(l, opts) ==
    IF opts = <<>> THEN l ELSE ApplyOptions(ApplyOption(l, Head(opts)), Tail(opts))

\* The DefaultLog struct NewDefaultLog(opts...) returns; its pairs map is maps[1].
NewDefaultLog(opts) ==
    ApplyOptions([pairs |-> 1, enableDebug |-> FALSE, output |-> "stdout"], opts)

Sinks == {"stdout"} \cup Writers

Init ==
    /\ \E opts \in SeqsUpTo(Options, MaxOpts) : logs = <<NewDefaultLog(opts)>>
    /\ maps = << <<>> >>
    /\ refs = [h \in Handles |-> IF h = "b" THEN 1 ELSE 0]
    /\ sinks = [s \in Sinks |-> <<>>]
    /\ called = [op |-> "NewDefaultLog", via |-> "b"]
    /\ from = [h \in Handles |-> "none"]
    /\ pkeys = [h \in Handles |-> {}]

----------------------------------------------------------------------------
\* With.

\* The context seen through handle h.
Ctx(h) == maps[logs[refs[h]].pairs]

mergePairsKeepOld(old, pairs) ==
    [k \in DOMAIN old \cup DOMAIN pairs |-> IF k \in DOMAIN old THEN old[k] ELSE pairs[k]]

\* for k, v := range pairs { newPairs[k] = v }
mergePairs(old, pairs) ==
    [k \in DOMAIN old \cup DOMAIN pairs |-> IF k \in DOMAIN pairs THEN pairs[k] ELSE old[k]]

\* Bookkeeping of which handle was derived from which, and with which keys.
Derive(src, dst, P) ==
    /\ from' = [h \in Handles |->
                   IF h = dst THEN (IF dst = src THEN from[h] ELSE src)
                   ELSE IF from[h] = dst THEN "none" ELSE from[h]]
    /\ pkeys' = [pkeys EXCEPT ![dst] = IF dst = src THEN @ \cup DOMAIN P ELSE DOMAIN P]

WithFreshStruct(src, dst, P) ==
    /\ refs[src] # 0
    /\ Len(logs) < Cardinality(Handles) + 1
    /\ LET dl == refs[src]
           newPairs == logs[dl].pairs
       IN /\ maps' = [maps EXCEPT ![newPairs] = mergePairs(@, P)]
          /\ logs' = Append(logs, [pairs |-> newPairs, enableDebug |-> FALSE, output |-> "stdout"])
          /\ refs' = [refs EXCEPT ![dst] = Len(logs) + 1]
    /\ called' = [op |-> "With", via |-> src]
    /\ Derive(src, dst, P)
    /\ UNCHANGED sinks

\* dst = src.With(P)
With(src, dst, P) ==
    /\ refs[src] # 0
    /\ LET dl == refs[src]
           newPairs == logs[dl].pairs
       IN /\ maps' = [maps EXCEPT ![newPairs] = mergePairs(@, P)]
          /\ logs' = [logs EXCEPT ![dl].pairs = newPairs]
          /\ refs' = [refs EXCEPT ![dst] = dl]
    /\ called' = [op |-> "With", via |-> src]
    /\ Derive(src, dst, P)
    /\ UNCHANGED sinks

----------------------------------------------------------------------------
\* The three log calls.

\* One fmt.Fprintf(dl.output, ...) of printLevel; the sink keeps, with the
\* bytes, which call wrote them and what it was given.
Emit(h, op, level, fmtStr, args, now, order, gopath, n) ==
    LET dl == logs[refs[h]]
        m == maps[dl.pairs]
        bytes == printLevel(dl.enableDebug, m, level, fmtStr, args, now, order, gopath, n)
    IN /\ Len(sinks[dl.output]) < MaxLines
       /\ sinks' = [sinks EXCEPT ![dl.output] =
                       Append(@, [op |-> op, via |-> h, pairs |-> m, fmtStr |-> fmtStr,
                                  args |-> args, resolved |-> (n > 2 + 2), bytes |-> bytes])]
       /\ called' = [op |-> op, via |-> h]
       /\ UNCHANGED <<logs, maps, refs, from, pkeys>>

DebugfUngated(h, fmtStr, args, now, order, gopath, n) ==
    /\ refs[h] # 0
    /\ Emit(h, "Debugf", "DEBUG", fmtStr, args, now, order, gopath, n)

Debugf(h, fmtStr, args, now, order, gopath, n) ==
    /\ refs[h] # 0
    /\ IF ~logs[refs[h]].enableDebug
       THEN /\ called' = [op |-> "Debugf", via |-> h]
            /\ UNCHANGED <<logs, maps, refs, sinks, from, pkeys>>
       ELSE Emit(h, "Debugf", "DEBUG", fmtStr, args, now, order, gopath, n)

Infof(h, fmtStr, args, now, order, gopath, n) ==
    /\ refs[h] # 0
    /\ Emit(h, "Infof", "INFO", fmtStr, args, now, order, gopath, n)

Errorf(h, fmtStr, args, now, order, gopath, n) ==
    /\ refs[h] # 0
    /\ Emit(h, "Errorf", "ERROR", fmtStr, args, now, order, gopath, n)

----------------------------------------------------------------------------
\* Specifications.

FmtStrs == SeqsUpTo(FmtAtoms, MaxFmtLen)
ArgLists == SeqsUpTo(ArgVals, MaxArgs)

\* The sink of h's logger still takes a write (the model keeps MaxLines of them).
Room(h) == Len(sinks[logs[refs[h]].output]) < MaxLines

\* A call of h's logger reaches printLevel: Debugf returns before it when debug is off.
Prints(h, op) == op # "Debugf" \/ logs[refs[h]].enableDebug

\* The environment is read only when debug is enabled (GOPATH, runtime.Callers).
EnvGoPaths(h) == IF logs[refs[h]].enableDebug THEN GoPaths ELSE {Unset}
EnvCallers(h) == IF logs[refs[h]].enableDebug THEN CallersResults ELSE {Len(Stack("INFO"))}

\* One logger held in one variable, every message and environment.
Next ==
    \/ \E P \in PairMaps : With("b", "b", P)
    \/ /\ Prints("b", "Debugf") => Room("b")
       /\ \E fmtStr \in FmtStrs, args \in ArgLists, now \in Times, order \in Orders(DOMAIN Ctx("b")),
             gopath \in EnvGoPaths("b"), n \in EnvCallers("b") :
             Debugf("b", fmtStr, args, now, order, gopath, n)
    \/ /\ Room("b")
       /\ \E fmtStr \in FmtStrs, args \in ArgLists, now \in Times, order \in Orders(DOMAIN Ctx("b")),
             gopath \in EnvGoPaths("b"), n \in EnvCallers("b") :
             Infof("b", fmtStr, args, now, order, gopath, n)
    \/ /\ Room("b")
       /\ \E fmtStr \in FmtStrs, args \in ArgLists, now \in Times, order \in Orders(DOMAIN Ctx("b")),
             gopath \in EnvGoPaths("b"), n \in EnvCallers("b") :
             Errorf("b", fmtStr, args, now, order, gopath, n)

Spec == Init /\ [][Next]_vars

\* Three variables holding loggers derived from one another, one plain message,
\* GOPATH unset and a complete stack walk.
LineageMaps == UNION {[D -> {"test"}] : D \in SUBSET Keys}

NextLineage ==
    \/ \E src \in Handles, dst \in Handles \ {"b"}, P \in LineageMaps : With(src, dst, P)
    \/ \E h \in Handles :
          /\ refs[h] # 0
          /\ Prints(h, "Debugf") => Room(h)
          /\ \E now \in Times, order \in Orders(DOMAIN Ctx(h)) :
                Debugf(h, <<"boom">>, <<>>, now, order, Unset, Len(Stack("DEBUG")))
    \/ \E h \in Handles :
          /\ refs[h] # 0
          /\ Room(h)
          /\ \E now \in Times, order \in Orders(DOMAIN Ctx(h)) :
                Infof(h, <<"boom">>, <<>>, now, order, Unset, Len(Stack("INFO")))
    \/ \E h \in Handles :
          /\ refs[h] # 0
          /\ Room(h)
          /\ \E now \in Times, order \in Orders(DOMAIN Ctx(h)) :
                Errorf(h, <<"boom">>, <<>>, now, order, Unset, Len(Stack("ERROR")))

SpecLineage == Init /\ [][NextLineage]_vars

----------------------------------------------------------------------------
\* Reading what was written.

\* Every write any sink received.
Entries == UNION {{sinks[s][i] : i \in DOMAIN sinks[s]} : s \in Sinks}

\* The debug flag of the logger that wrote e.
DebugOf(e) == logs[refs[e.via]].enableDebug

LevelOf(op) == CASE op = "Debugf" -> "DEBUG" [] op = "Infof" -> "INFO" [] OTHER -> "ERROR"

\* Position of the '#' of a caller segment, 0 when the line has none.
HashPos(b) ==
    IF \E i \in DOMAIN b : b[i] = "#"
    THEN CHOOSE i \in DOMAIN b : b[i] = "#" /\ \A j \in 1..(i - 1) : b[j] # "#"
    ELSE 0

HasCaller(b) == HashPos(b) # 0

CallerPath(b) == SubSeq(b, 5, HashPos(b) - 1)

CallerLine(b) == b[HashPos(b) + 1]

\* First position after the header and the caller segment with its space.
BodyStart(b) == IF HasCaller(b) THEN HashPos(b) + 3 ELSE 5

Count(b, a) == Cardinality({i \in DOMAIN b : b[i] = a})

TagCount(b, level) ==
    Cardinality({i \in 1..(Len(b) - 2) : b[i] = " |" /\ b[i + 1] = level /\ b[i + 2] = "| "})

ContainsKey(b, k) == \E i \in 1..(Len(b) - 1) : b[i] = k /\ b[i + 1] = "="

NumVerbs(format) == Cardinality({i \in DOMAIN format : IsVerb(format[i])})

PairVerbs(m) ==
    Cardinality({k \in DOMAIN m : IsVerb(k)}) + Cardinality({k \in DOMAIN m : IsVerb(m[k])})

Tokens(m, order) == Join([i \in DOMAIN order |-> <<order[i], "=", m[order[i]]>>], <<" ">>)

SitePaths == {CallSite.File, <<"app/main.go">>}

----------------------------------------------------------------------------
C2_SiblingIsolation ==
    [][\A s \in Sinks :
          Len(sinks'[s]) > Len(sinks[s]) =>
             LET e == sinks'[s][Len(sinks'[s])]
             IN \A h2 \in Handles \ {e.via} :
                   (/\ from[e.via] = "b" /\ from[h2] = "b"
                    /\ pkeys[e.via] \cap pkeys[h2] = {})
                   => \A k \in pkeys[h2] : ~ContainsKey(e.bytes, k)]_vars

C4_DebugfDisabledNoop ==
    [][(called'.op = "Debugf" /\ ~logs[refs[called'.via]].enableDebug)
          => UNCHANGED <<logs, maps, refs, sinks>>]_vars

C4_Witness ==
    /\ called.op = "Debugf" /\ ~logs[refs["b"]].enableDebug
    /\ DOMAIN Ctx("b") = Keys
    /\ \E e \in Entries : e.op = "Infof"

\* C5: no call changes the debug flag or the sink of a logger, every logger keeps
\* those of the constructed one, and only With changes a context.
C5_ConfigImmutable ==
    [][/\ \A i \in DOMAIN logs' :
             /\ logs'[i].enableDebug = logs[1].enableDebug
             /\ logs'[i].output = logs[1].output
       /\ \A h \in Handles : refs'[h] # 0 => refs'[h] \in DOMAIN logs'
       /\ maps' # maps => called'.op = "With"]_vars

C5_Witness ==
    /\ logs[refs["b"]].enableDebug /\ logs[refs["b"]].output = "buf"
    /\ called.op = "With" /\ DOMAIN Ctx("b") = Keys
    /\ \E e \in Entries : e.op = "Debugf"

\* C6: when the stack walk yields no frame at the target depth, the caller
\* segment of the line is the placeholder "unknown", not an empty path with
\* line number 0.
C6_UnknownPlaceholder ==
    \A e \in Entries :
        (DebugOf(e) /\ ~e.resolved) =>
            /\ e.bytes[5] = "unknown"
            /\ ~(e.bytes[5] = "#" /\ e.bytes[6] = "0")

C8_DebugfCallSite ==
    \A e \in Entries :
        e.op = "Debugf" =>
            /\ HasCaller(e.bytes)
            /\ CallerPath(e.bytes) \in SitePaths
            /\ CallerLine(e.bytes) = ToString(CallSite.Line)

C10_TokensPerPair ==
    \A e \in Entries :
        \E order \in Orders(DOMAIN e.pairs) :
            LET t == Tokens(e.pairs, order)
                at == BodyStart(e.bytes)
            IN /\ SubSeq(e.bytes, at, at + Len(t) - 1) = t
               /\ (e.fmtStr # <<>> /\ ~IsVerb(e.fmtStr[1])) => e.bytes[at + Len(t)] = e.fmtStr[1]

====
